---- MODULE Spec2Model ----
(***************************************************************************)
(* Job lifecycle engine of the Skillcape transcoder: the bounded job       *)
(* queue, the worker pool, the per-job processing pipeline, the cancel /   *)
(* delete handler, startup recovery and the webhook notifier.              *)
(*                                                                         *)
(* Spec is the serving engine (cmd/server main, jobs.Queue,                *)
(* jobs.WorkerPool, the job processor, the HTTP handlers that touch job    *)
(* records, the db package).  SpecRecovery is startup alone, from any      *)
(* table a previous lifetime left.  SpecStop is startup, submissions and   *)
(* workers with graceful shutdown; SpecPanic the same engine when the      *)
(* processing of a job can panic.  SpecSend is one call of                 *)
(* webhook.Client.Send with its retry loop, SpecNotify the goroutine       *)
(* SendAsync starts for a job a worker has just finished.  SpecProgress   *)
(* is the pipeline fed with the progress lines ffmpeg can print,           *)
(* SpecConfig the engine with WORKER_COUNT read from the environment, and  *)
(* SpecFifo the engine with the order of events on Queue.jobs recorded.    *)
(* SpecLive is the serving engine with main() and the workers scheduled,   *)
(* SpecClose the engine with a caller of Queue.Close.                      *)
(***************************************************************************)
EXTENDS Integers, Sequences, FiniteSets, TLC

(* ------------------------------ bounds --------------------------------- *)
NumJobs == 3
NumWorkers == 2
NumPersisted == 1
MaxDeletes == 1
QueueCap == 2
MaxRetry == 2
MaxTime == 3

Jobs == 1..NumJobs
Workers == 1..NumWorkers

(* --------------------------- job records -------------------------------- *)
StatusPending == "pending"
StatusProcessing == "processing"
StatusCompleted == "completed"
StatusFailed == "failed"
StatusCancelled == "cancelled"

Terminal == {StatusCompleted, StatusFailed, StatusCancelled}

\* Values the transcoder hands to the progress callback.
ProgressVals == {0, 50}

ErrNone == ""
ErrTranscode == "transcoding failed"
ErrUpload == "drive upload failed"
\* "transcoding failed: ..." when the cause is the cancelled context: ffmpeg
\* is not started, or is killed.
ErrKilled == "transcoding failed: context canceled"

\* A jobs.Job value: the columns the engine reads or writes.  drive stands
\* for DriveFileID/DriveURL (set together), completedAt for CompletedAt #
\* nil, deleted for DeletedAt # NULL.
Job(st, pr, ca, er, dr, del) ==
    [status |-> st, progress |-> pr, completedAt |-> ca, error |-> er,
     drive |-> dr, deleted |-> del]

NoRow == [status |-> "none"]

\* The record CreateJob builds.
NewJob == Job(StatusPending, 0, FALSE, ErrNone, FALSE, FALSE)

VARIABLES
    store,        \* the jobs table: job id -> row, or NoRow
    mem,          \* the *jobs.Job object shared by the enqueuer and the worker
    queue,        \* buffered contents of Queue.jobs
    running,      \* Queue.running
    wpc,          \* each worker goroutine's position
    wjob,         \* the job a worker holds (0: none)
    mainPc,       \* position of main()
    recList,      \* recoverPendingJobs: records not yet handled by the loop
    stopped,      \* WorkerPool.ctx is cancelled
    dj,           \* position of the DeleteJob request in flight
    djJob,        \* the job that request names (0: no request in flight)
    djCopy,       \* the record that request read with GetJob
    gormUpsert,   \* how DB.Save treats a row it cannot update (see SaveRow)
    driveOn,      \* driveClient # nil
    events,       \* payloads handed to SendAsync, per job
    enqRes,       \* result of the Enqueue call made for each job
    delivered,    \* how many times each job was received from Queue.Jobs()
    deletes,      \* DeleteJob requests accepted so far
    invoked,      \* jobs for which ffmpeg.Transcode was called
    cancelledPending, \* jobs cancelled while pending and still buffered
    store0,       \* the table as main() found it
    cancelReq,    \* jobs a DeleteJob request has named
    uploads,      \* jobs for which driveClient.UploadFile was called
    released,     \* jobs whose local files the processor cleaned up
    wg,           \* the counter of WorkerPool.wg
    numWorkers,   \* WorkerPool.numWorkers, from cfg.WorkerCount
    sUrl, sR, sPc, sAttempt, sHist, sResult, sCtxDone, sBackoff,
    sJob          \* the job the payload given to SendAsync is about

engineVars == <<store, mem, queue, running, wpc, wjob, mainPc, recList,
                stopped, dj, djJob, djCopy, gormUpsert, driveOn, events, enqRes,
                delivered, invoked, cancelledPending, store0, deletes,
                cancelReq, uploads, released, wg, numWorkers>>
sendVars == <<sUrl, sR, sPc, sAttempt, sHist, sResult, sCtxDone, sBackoff,
              sJob>>

\* Observers of the order of events on Queue.jobs; only SpecFifo records them.
VARIABLES
    enqOrder,     \* jobs in the order their Enqueue calls succeeded
    recvOrder,    \* jobs in the order workers received them from Jobs()
    startOrder    \* jobs in the order their ProcessJob calls began

orderVars == <<enqOrder, recvOrder, startOrder>>

\* Queue.jobs has been closed; only SpecClose has a caller of Queue.Close.
VARIABLE closed

vars == <<engineVars, sendVars, orderVars, closed>>

(* ------------------------------ db package ------------------------------ *)
\* A row is visible to First/Find when it exists and is not soft-deleted.
Visible(j) == store[j] # NoRow /\ ~store[j].deleted

\* db.UpdateJob = DB.Save(job): an UPDATE of every column of the visible
\* row.  When no row is updated (the row is soft-deleted) the library either
\* upserts the whole record, clearing deleted_at, or falls back to an INSERT
\* that fails on the primary key and leaves the row alone, depending on the
\* gorm release the build links; the caller ignores the error.
SaveRow(st, j, rec) ==
    IF st[j] = NoRow THEN [st EXCEPT ![j] = rec]
    ELSE IF ~st[j].deleted THEN [st EXCEPT ![j] = rec]
    ELSE IF gormUpsert THEN [st EXCEPT ![j] = rec]
    ELSE st

\* db.DeleteJob: soft delete of the visible row.
SoftDelete(st, j) ==
    IF st[j] # NoRow /\ ~st[j].deleted
    THEN [st EXCEPT ![j].deleted = TRUE] ELSE st

\* db.GetPendingJobs: visible rows with status pending or processing, in
\* ascending creation order (job ids are numbered in creation order).
RECURSIVE PendingFrom(_, _)
PendingFrom(st, j) ==
    IF j > NumJobs THEN <<>>
    ELSE IF st[j] # NoRow /\ ~st[j].deleted
            /\ st[j].status \in {StatusPending, StatusProcessing}
         THEN <<j>> \o PendingFrom(st, j + 1)
         ELSE PendingFrom(st, j + 1)

\* A query that selects failed rows as well.
GetPendingJobsWithFailed(st) ==
    SelectSeq([j \in 1..NumJobs |-> j],
              LAMBDA j : /\ st[j] # NoRow
                         /\ ~st[j].deleted
                         /\ st[j].status \in {StatusPending, StatusProcessing,
                                               StatusFailed})

GetPendingJobs(st) == PendingFrom(st, 1)

(* ------------------------------- Queue ---------------------------------- *)
\* Enqueue taking the channel to have room while it holds QueueCap entries.
EnqueueOkOffByOne(q) == Len(q) <= QueueCap

\* Queue.Enqueue: a non-blocking send on the buffered channel.
EnqueueOk(q) == Len(q) < QueueCap

\* An Enqueue that puts the reference at the front of the buffer.
EnqueueFront(q, j) == IF EnqueueOk(q) THEN <<j>> \o q ELSE q

Enqueue(q, j) == IF EnqueueOk(q) THEN Append(q, j) ELSE q
EnqueueResult(q) == IF EnqueueOk(q) THEN "ok" ELSE "full"

\* Queue.Size
Size(q) == Len(q)

\* MarkDone that leaves the id in the running set.
MarkDoneKeep(r, j) == r

\* MarkRunning that does not record the id.
MarkRunningSkip(r, j) == r

\* Queue.MarkRunning / Queue.MarkDone / Queue.IsRunning
MarkRunning(r, j) == r \cup {j}
MarkDone(r, j) == r \ {j}
IsRunning(j) == j \in running

(* ------------------------------ Init ------------------------------------ *)
\* Rows a previous process lifetime can have left in the table.
UnfinishedRows ==
    { NoRow,
      Job(StatusPending, 0, FALSE, ErrNone, FALSE, FALSE),
      Job(StatusProcessing, 50, FALSE, ErrNone, FALSE, FALSE) }

PersistedRows ==
    UnfinishedRows \cup
    { Job(StatusCompleted, 100, TRUE, ErrNone, FALSE, FALSE),
      Job(StatusFailed, 50, TRUE, ErrTranscode, FALSE, FALSE),
      Job(StatusCancelled, 0, FALSE, ErrNone, FALSE, TRUE) }

\* The oldest NumPersisted ids may be in the table at startup.
PersistedStores ==
    { st \in [Jobs -> UnfinishedRows] :
        \A j \in Jobs : j > NumPersisted => st[j] = NoRow }

SendIdle ==
    /\ sUrl = FALSE /\ sR = 0 /\ sPc = "off" /\ sAttempt = 0
    /\ sHist = <<>> /\ sResult = "none" /\ sCtxDone = FALSE /\ sBackoff = 0
    /\ sJob = 0

OrderIdle == enqOrder = <<>> /\ recvOrder = <<>> /\ startOrder = <<>>

\* NewQueue: the channel is made open.
QueueOpen == closed = FALSE

\* The state main() has built when it calls workerPool.Start(), but for the
\* number of workers.
EngineBoot ==
    /\ store0 = store
    /\ mem = [j \in Jobs |-> NoRow]
    /\ queue = <<>>
    /\ running = {}
    /\ wpc = [w \in Workers |-> "notstarted"]
    /\ wjob = [w \in Workers |-> 0]
    /\ mainPc = "boot"
    /\ recList = <<>>
    /\ stopped = FALSE
    /\ dj = "none"
    /\ djJob = 0
    /\ djCopy = NoRow
    /\ gormUpsert \in BOOLEAN
    /\ driveOn \in BOOLEAN
    /\ events = [j \in Jobs |-> <<>>]
    /\ enqRes = [j \in Jobs |-> "none"]
    /\ delivered = [j \in Jobs |-> 0]
    /\ deletes = 0
    /\ invoked = {}
    /\ cancelledPending = {}
    /\ cancelReq = {}
    /\ uploads = {}
    /\ released = {}
    /\ wg = 0

\* That state with NumWorkers workers configured.
EngineStart ==
    /\ numWorkers = NumWorkers
    /\ EngineBoot

Init ==
    /\ store \in PersistedStores
    /\ EngineStart
    /\ SendIdle
    /\ OrderIdle
    /\ QueueOpen

(* ------------------------------- main() --------------------------------- *)
\* workerPool.Start(): every worker goroutine is launched.
StartPool ==
    /\ mainPc = "boot"
    /\ wpc' = [w \in Workers |-> IF w <= numWorkers THEN "idle"
                                 ELSE "notstarted"]
    /\ wg' = wg + (IF numWorkers > 0 THEN numWorkers ELSE 0)
    /\ mainPc' = "recover"
    /\ UNCHANGED <<store, mem, queue, running, wjob, recList, stopped, dj,
                   djJob, djCopy, gormUpsert, driveOn, events, enqRes, delivered,
                   invoked, cancelledPending, store0, deletes, cancelReq, uploads,
                   released, numWorkers>>

\* recoverPendingJobs up to the loop: the query and the empty-list return.
RecoverQuery ==
    /\ mainPc = "recover"
    /\ LET l == GetPendingJobs(store) IN
         /\ recList' = l
         /\ mem' = [j \in Jobs |->
                      IF \E i \in 1..Len(l) : l[i] = j THEN store[j] ELSE mem[j]]
         /\ mainPc' = IF Len(l) = 0 THEN "serve" ELSE "recovering"
    /\ UNCHANGED <<store, queue, running, wpc, wjob, stopped, dj, djJob, djCopy,
                   gormUpsert, driveOn, events, enqRes, delivered, invoked,
                   cancelledPending, store0, deletes, cancelReq, uploads,
                   released, wg,
                   numWorkers>>

\* A loop iteration that marks the record failed when Enqueue refuses it.
RecoverStepFailsOnFull ==
    /\ mainPc = "recovering"
    /\ recList # <<>>
    /\ LET j == Head(recList)
           rec == [mem[j] EXCEPT
                     !.status = IF EnqueueOk(queue) THEN StatusPending
                                ELSE StatusFailed,
                     !.progress = 0]
       IN /\ mem' = [mem EXCEPT ![j] = rec]
          /\ store' = SaveRow(store, j, rec)
          /\ queue' = Enqueue(queue, j)
          /\ enqRes' = [enqRes EXCEPT ![j] = EnqueueResult(queue)]
    /\ recList' = Tail(recList)
    /\ mainPc' = IF Tail(recList) = <<>> THEN "serve" ELSE "recovering"
    /\ UNCHANGED <<running, wpc, wjob, stopped, dj, djJob, djCopy, gormUpsert,
                   driveOn, events, delivered, invoked, cancelledPending,
                   store0, deletes, cancelReq, uploads, released, wg,
                   numWorkers>>

\* One iteration of the loop of recoverPendingJobs: reset, save, enqueue.
\* After the last iteration main() sets up the router and starts serving.
RecoverStep ==
    /\ mainPc = "recovering"
    /\ recList # <<>>
    /\ LET j == Head(recList)
           rec == [mem[j] EXCEPT !.status = StatusPending, !.progress = 0]
       IN /\ mem' = [mem EXCEPT ![j] = rec]
          /\ store' = SaveRow(store, j, rec)
          /\ queue' = Enqueue(queue, j)
          /\ enqRes' = [enqRes EXCEPT ![j] = EnqueueResult(queue)]
    /\ recList' = Tail(recList)
    /\ mainPc' = IF Tail(recList) = <<>> THEN "serve" ELSE "recovering"
    /\ UNCHANGED <<running, wpc, wjob, stopped, dj, djJob, djCopy, gormUpsert,
                   driveOn, events, delivered, invoked, cancelledPending,
                   store0, deletes, cancelReq, uploads,
                   released, wg,
                   numWorkers>>

\* The interrupt signal: the server stops taking requests and
\* WorkerPool.Stop cancels the pool context.
Signal ==
    /\ mainPc = "serve"
    /\ mainPc' = "stopping"
    /\ stopped' = TRUE
    /\ UNCHANGED <<store, mem, queue, running, wpc, wjob, recList, dj, djJob, djCopy,
                   gormUpsert, driveOn, events, enqRes, delivered, invoked,
                   cancelledPending, store0, deletes, cancelReq, uploads,
                   released, wg,
                   numWorkers>>

\* A Stop that cancels and returns without wg.Wait().
StopReturnNoWait ==
    /\ mainPc = "stopping"
    /\ mainPc' = "exited"
    /\ UNCHANGED <<store, mem, queue, running, wpc, wjob, recList, stopped, dj,
                   djJob, djCopy, gormUpsert, driveOn, events, enqRes, delivered,
                   invoked, cancelledPending, store0, deletes, cancelReq, uploads,
                   released, wg,
                   numWorkers>>

\* WorkerPool.Stop returns from wg.Wait(): the counter is 0, every worker
\* goroutine has run its deferred wg.Done().
StopReturn ==
    /\ mainPc = "stopping"
    /\ wg = 0
    /\ mainPc' = "exited"
    /\ UNCHANGED <<store, mem, queue, running, wpc, wjob, recList, stopped, dj,
                   djJob, djCopy, gormUpsert, driveOn, events, enqRes, delivered,
                   invoked, cancelledPending, store0, deletes, cancelReq, uploads,
                   released, wg,
                   numWorkers>>

(* ----------------------------- HTTP handlers ----------------------------- *)
\* Handler.CreateJob: a record with a fresh id is inserted and enqueued;
\* on ErrQueueFull the handler answers 503 and returns.
CreateJob(j) ==
    /\ mainPc = "serve"
    /\ store[j] = NoRow
    /\ store' = [store EXCEPT ![j] = NewJob]
    /\ mem' = [mem EXCEPT ![j] = NewJob]
    /\ queue' = Enqueue(queue, j)
    /\ enqRes' = [enqRes EXCEPT ![j] = EnqueueResult(queue)]
    /\ UNCHANGED <<running, wpc, wjob, mainPc, recList, stopped, dj, djJob, djCopy,
                   gormUpsert, driveOn, events, delivered, invoked,
                   cancelledPending, store0, deletes, cancelReq, uploads,
                   released, wg,
                   numWorkers>>

\* Handler.DeleteJob, db.GetJob: 404 when no visible row (no state change).
\* One DeleteJob request is in flight at a time.
DeleteGet(j) ==
    /\ mainPc = "serve"
    /\ dj = "none"
    /\ deletes < MaxDeletes
    /\ Visible(j)
    /\ deletes' = deletes + 1
    /\ cancelReq' = cancelReq \cup {j}
    /\ djJob' = j
    /\ djCopy' = store[j]
    /\ dj' = "got"
    /\ UNCHANGED <<store, mem, queue, running, wpc, wjob, mainPc, recList,
                   stopped, gormUpsert, driveOn, events, enqRes, delivered,
                   invoked, cancelledPending, store0, uploads, released, wg,
                   numWorkers>>

\* The record DeleteJob saves: the copy it read, marked cancelled.
CancelRec(rec) == [rec EXCEPT !.status = StatusCancelled]

\* Handler.DeleteJob: does the copy it read call for a cancel?
ShouldCancel(rec) == rec.status \in {StatusPending, StatusProcessing}

\* Handler.DeleteJob: mark the record cancelled when the copy read is
\* pending or processing, then clean up the files.
DeleteUpdate ==
    /\ dj = "got"
    /\ IF ShouldCancel(djCopy)
       THEN /\ store' = SaveRow(store, djJob, CancelRec(djCopy))
            /\ cancelledPending' =
                 IF /\ store[djJob].status = StatusPending
                    /\ \E i \in 1..Len(queue) : queue[i] = djJob
                 THEN cancelledPending \cup {djJob} ELSE cancelledPending
       ELSE UNCHANGED <<store, cancelledPending>>
    /\ djCopy' = NoRow
    /\ dj' = "updated"
    /\ UNCHANGED <<mem, queue, running, wpc, wjob, mainPc, recList, stopped,
                   djJob, gormUpsert, driveOn, events, enqRes, delivered,
                   invoked, store0, deletes, cancelReq, uploads,
                   released, wg,
                   numWorkers>>

\* Handler.DeleteJob: the soft delete and the 200 answer.
DeleteSoft ==
    /\ dj = "updated"
    /\ store' = SoftDelete(store, djJob)
    /\ dj' = "none"
    /\ djJob' = 0
    /\ UNCHANGED djCopy
    /\ UNCHANGED <<mem, queue, running, wpc, wjob, mainPc, recList, stopped,
                   gormUpsert, driveOn, events, enqRes, delivered, invoked,
                   cancelledPending, store0, deletes, cancelReq, uploads,
                   released, wg,
                   numWorkers>>

(* ------------------------------ WorkerPool ------------------------------ *)
\* What no step of a worker goroutine changes.
PipelineFrame ==
    UNCHANGED <<mainPc, recList, stopped, dj, djJob, djCopy, gormUpsert,
                driveOn, enqRes, cancelledPending, store0, deletes, cancelReq,
                numWorkers>>

EngineFrame == PipelineFrame /\ UNCHANGED <<uploads, released, wg,
                   numWorkers>>

\* A receive that leaves the reference in the buffer.
ReceivePeek(q) == q

\* What the receive on Queue.Jobs() leaves in the channel buffer.
Receive(q) == Tail(q)

\* WorkerPool.worker, select case job := <-wp.queue.Jobs().  The select
\* picks among its ready cases, so a cancelled context does not disable it.
WorkerReceive(w) ==
    /\ wpc[w] = "idle"
    /\ queue # <<>>
    /\ wjob' = [wjob EXCEPT ![w] = Head(queue)]
    /\ delivered' = [delivered EXCEPT ![Head(queue)] = @ + 1]
    /\ queue' = Receive(queue)
    /\ wpc' = [wpc EXCEPT ![w] = "received"]
    /\ UNCHANGED <<store, mem, running, events, invoked>>
    /\ EngineFrame

\* WorkerPool.worker, select case <-wp.ctx.Done().
WorkerExit(w) ==
    /\ wpc[w] = "idle"
    /\ stopped
    /\ wpc' = [wpc EXCEPT ![w] = "exited"]
    /\ wg' = wg - 1
    /\ UNCHANGED <<store, mem, queue, running, wjob, events, delivered,
                   invoked, uploads, released>>
    /\ PipelineFrame

\* WorkerPool.processJob: wp.queue.MarkRunning(job.ID).
WorkerMarkRunning(w) ==
    /\ wpc[w] = "received"
    /\ running' = MarkRunning(running, wjob[w])
    /\ wpc' = [wpc EXCEPT ![w] = "marked"]
    /\ UNCHANGED <<store, mem, queue, wjob, events, delivered, invoked>>
    /\ EngineFrame

\* A processor that calls ffmpeg.Transcode without saving status processing.
ProcessStartNoSave(w) ==
    /\ wpc[w] = "marked"
    /\ invoked' = invoked \cup {wjob[w]}
    /\ wpc' = [wpc EXCEPT ![w] = IF stopped THEN "nostart" ELSE "transcoding"]
    /\ UNCHANGED <<store, mem, queue, running, wjob, events, delivered>>
    /\ EngineFrame

\* The job processor's first statements: status processing is saved, then
\* ffmpeg.Transcode is called.  With the pool context already cancelled
\* ffmpeg is not started ("nostart").
ProcessStart(w) ==
    /\ wpc[w] = "marked"
    /\ LET j == wjob[w]
           rec == [mem[j] EXCEPT !.status = StatusProcessing]
       IN /\ mem' = [mem EXCEPT ![j] = rec]
          /\ store' = SaveRow(store, j, rec)
          /\ invoked' = invoked \cup {j}
    /\ wpc' = [wpc EXCEPT ![w] = IF stopped THEN "nostart" ELSE "transcoding"]
    /\ UNCHANGED <<queue, running, wjob, events, delivered>>
    /\ EngineFrame

\* progressCallback, called by FFmpeg.Transcode for a progress line.
ProgressCallback(w, p) ==
    /\ wpc[w] = "transcoding"
    /\ LET j == wjob[w]
           rec == [mem[j] EXCEPT !.progress = p]
       IN /\ mem' = [mem EXCEPT ![j] = rec]
          /\ store' = SaveRow(store, j, rec)
    /\ UNCHANGED <<queue, running, wpc, wjob, events, delivered, invoked>>
    /\ EngineFrame

\* int(x / y) for y > 0: the conversion truncates toward zero.
TruncDiv(x, y) == IF x >= 0 THEN x \div y ELSE -((-x) \div y)

\* The value FFmpeg.Transcode computes from a line out_time_ms=t for an
\* input of duration d (same unit as t): int(t / d * 100), at most 100.
Progress(t, d) ==
    LET p == TruncDiv(t * 100, d) IN IF p > 100 THEN 100 ELSE p

\* The duration getDuration reports for the input, in the unit of TimeVals.
InputDuration == 2

\* Values of out_time_ms lines on ffmpeg's progress pipe; ffmpeg writes a
\* negative value while it has no timestamp yet.
TimeVals == -1..MaxTime

\* FFmpeg.Transcode reads a line out_time_ms=t and calls onProgress.
ProgressLine(w, t) ==
    /\ InputDuration > 0
    /\ ProgressCallback(w, Progress(t, InputDuration))

\* FFmpeg.Transcode returns nil: its last act is onProgress(100).
TranscodeOk(w) ==
    /\ wpc[w] = "transcoding"
    /\ LET j == wjob[w]
           rec == [mem[j] EXCEPT !.progress = 100]
       IN /\ mem' = [mem EXCEPT ![j] = rec]
          /\ store' = SaveRow(store, j, rec)
    /\ wpc' = [wpc EXCEPT ![w] = "transcoded"]
    /\ UNCHANGED <<queue, running, wjob, events, delivered, invoked>>
    /\ EngineFrame

\* handleJobFailure without the CompletedAt assignment.
FailedRecNoCompletedAt(rec, msg) ==
    [rec EXCEPT !.status = StatusFailed, !.error = msg]

\* handleJobFailure putting the progress back to 0.
FailedRecResetProgress(rec, msg) ==
    [rec EXCEPT !.status = StatusFailed, !.error = msg, !.completedAt = TRUE,
                !.progress = 0]

\* handleJobFailure recording the message without the failed status.
FailedRecKeepsStatus(rec, msg) ==
    [rec EXCEPT !.error = msg, !.completedAt = TRUE]

\* The record handleJobFailure saves.
FailedRec(rec, msg) ==
    [rec EXCEPT !.status = StatusFailed, !.error = msg, !.completedAt = TRUE]

\* A failure payload built from the status the record had while processing.
FailurePayloadStaleStatus(rec, msg) ==
    [status |-> StatusProcessing, drive |-> FALSE, error |-> msg]

\* The webhook.Payload handleJobFailure builds.
FailurePayload(rec, msg) ==
    [status |-> rec.status, drive |-> FALSE, error |-> msg]

\* handleJobFailure: save the failed record, SendAsync the failure payload.
HandleJobFailure(w, msg) ==
    LET j == wjob[w]
        rec == FailedRec(mem[j], msg)
    IN /\ mem' = [mem EXCEPT ![j] = rec]
       /\ store' = SaveRow(store, j, rec)
       /\ events' = [events EXCEPT ![j] = Append(@, FailurePayload(rec, msg))]
       /\ wpc' = [wpc EXCEPT ![w] = "returned"]

\* ffmpeg.Transcode returns an error.
TranscodeFail(w) ==
    /\ wpc[w] = "transcoding"
    /\ HandleJobFailure(w, ErrTranscode)
    /\ UNCHANGED <<queue, running, wjob, delivered, invoked>>
    /\ EngineFrame

\* A failed upload after which the local files are cleaned up.
UploadFailCleansUp(w) ==
    /\ wpc[w] = "transcoded"
    /\ driveOn
    /\ uploads' = uploads \cup {wjob[w]}
    /\ released' = released \cup {wjob[w]}
    /\ HandleJobFailure(w, ErrUpload)
    /\ UNCHANGED <<queue, running, wjob, delivered, invoked>>
    /\ PipelineFrame /\ UNCHANGED wg

\* ffmpeg.Transcode returns an error because the job context, a child of
\* the pool context, is cancelled: exec.CommandContext does not start
\* ffmpeg, or kills it.
TranscodeKilled(w) ==
    /\ \/ wpc[w] = "nostart"
       \/ wpc[w] = "transcoding" /\ stopped
    /\ HandleJobFailure(w, ErrKilled)
    /\ UNCHANGED <<queue, running, wjob, delivered, invoked>>
    /\ EngineFrame

\* driveClient.UploadFile is called and returns an error.
UploadFail(w) ==
    /\ wpc[w] = "transcoded"
    /\ driveOn
    /\ uploads' = uploads \cup {wjob[w]}
    /\ HandleJobFailure(w, ErrUpload)
    /\ UNCHANGED <<queue, running, wjob, delivered, invoked, released>>
    /\ PipelineFrame /\ UNCHANGED wg

\* A completed record that carries no file id or link.
CompletedRecNoDrive(rec) ==
    [rec EXCEPT !.status = StatusCompleted, !.progress = 100,
                !.completedAt = TRUE]

\* The record the processor saves on success.
CompletedRec(rec) ==
    [rec EXCEPT !.status = StatusCompleted, !.progress = 100,
                !.completedAt = TRUE, !.drive = driveOn]

\* The webhook.Payload the processor builds on success.
SuccessPayload(rec) ==
    [status |-> rec.status, drive |-> rec.drive, error |-> ErrNone]

\* The rest of the processor on success: the upload (when configured)
\* returns the file id and link, the completed record is saved, local files
\* are cleaned up after an upload, and the payload goes to SendAsync.
Complete(w) ==
    /\ wpc[w] = "transcoded"
    /\ LET j == wjob[w]
           rec == CompletedRec(mem[j])
       IN /\ mem' = [mem EXCEPT ![j] = rec]
          /\ store' = SaveRow(store, j, rec)
          /\ events' = [events EXCEPT ![j] = Append(@, SuccessPayload(rec))]
          /\ uploads' = IF driveOn THEN uploads \cup {j} ELSE uploads
          /\ released' = IF driveOn THEN released \cup {j} ELSE released
    /\ wpc' = [wpc EXCEPT ![w] = "returned"]
    /\ UNCHANGED <<queue, running, wjob, delivered, invoked>>
    /\ PipelineFrame /\ UNCHANGED wg

\* A panic raised while wp.processor runs.  processJob and worker have no
\* recover(): the deferred MarkDone runs while the goroutine unwinds, then
\* the Go runtime ends the process, and with it main() and every other
\* worker goroutine.  Nothing is saved for the job.
ProcessorPanic(w) ==
    /\ wpc[w] \in {"transcoding", "transcoded"}
    /\ running' = MarkDone(running, wjob[w])
    /\ wpc' = [v \in Workers |-> IF v = w THEN "panicked" ELSE "crashed"]
    /\ mainPc' = "crashed"
    /\ wg' = wg - 1
    /\ UNCHANGED <<store, mem, queue, wjob, recList, stopped, dj, djJob, djCopy,
                   gormUpsert, driveOn, events, enqRes, delivered, invoked,
                   cancelledPending, store0, deletes, cancelReq, uploads,
                   released, numWorkers>>

\* WorkerPool.processJob returns: the deferred wp.queue.MarkDone(job.ID).
WorkerMarkDone(w) ==
    /\ wpc[w] = "returned"
    /\ running' = MarkDone(running, wjob[w])
    /\ mem' = [mem EXCEPT ![wjob[w]] = NoRow]
    /\ wjob' = [wjob EXCEPT ![w] = 0]
    /\ wpc' = [wpc EXCEPT ![w] = "idle"]
    /\ UNCHANGED <<store, queue, events, delivered, invoked>>
    /\ EngineFrame

(* --------------------------- engine specifications ----------------------- *)
\* Steps of the worker goroutines.
WorkerNext ==
    \/ \E w \in Workers : WorkerReceive(w) /\ UNCHANGED <<sendVars, orderVars, closed>>
    \/ \E w \in Workers : WorkerMarkRunning(w) /\ UNCHANGED <<sendVars, orderVars, closed>>
    \/ \E w \in Workers : ProcessStart(w) /\ UNCHANGED <<sendVars, orderVars, closed>>
    \/ \E w \in Workers, p \in ProgressVals :
          ProgressCallback(w, p) /\ UNCHANGED <<sendVars, orderVars, closed>>
    \/ \E w \in Workers : TranscodeOk(w) /\ UNCHANGED <<sendVars, orderVars, closed>>
    \/ \E w \in Workers : TranscodeFail(w) /\ UNCHANGED <<sendVars, orderVars, closed>>
    \/ \E w \in Workers : UploadFail(w) /\ UNCHANGED <<sendVars, orderVars, closed>>
    \/ \E w \in Workers : Complete(w) /\ UNCHANGED <<sendVars, orderVars, closed>>
    \/ \E w \in Workers : WorkerMarkDone(w) /\ UNCHANGED <<sendVars, orderVars, closed>>

\* Startup of main() up to the point where the server listens.
StartupNext ==
    \/ StartPool /\ UNCHANGED <<sendVars, orderVars, closed>>
    \/ RecoverQuery /\ UNCHANGED <<sendVars, orderVars, closed>>
    \/ RecoverStep /\ UNCHANGED <<sendVars, orderVars, closed>>

\* POST requests.
SubmitNext == \E j \in Jobs : CreateJob(j) /\ UNCHANGED <<sendVars, orderVars, closed>>

\* Requests of the HTTP surface.
HttpNext ==
    \/ SubmitNext
    \/ \E j \in Jobs : DeleteGet(j) /\ UNCHANGED <<sendVars, orderVars, closed>>
    \/ DeleteUpdate /\ UNCHANGED <<sendVars, orderVars, closed>>
    \/ DeleteSoft /\ UNCHANGED <<sendVars, orderVars, closed>>

\* Graceful shutdown.
ShutdownNext ==
    \/ Signal /\ UNCHANGED <<sendVars, orderVars, closed>>
    \/ StopReturn /\ UNCHANGED <<sendVars, orderVars, closed>>
    \/ \E w \in Workers : WorkerExit(w) /\ UNCHANGED <<sendVars, orderVars, closed>>
    \/ \E w \in Workers : TranscodeKilled(w) /\ UNCHANGED <<sendVars, orderVars, closed>>

\* The serving engine: startup, requests and workers.
Next == StartupNext \/ HttpNext \/ WorkerNext

Spec == Init /\ [][Next]_vars

\* Startup and workers alone, from any table a previous lifetime left.
InitRecovery ==
    /\ store \in [Jobs -> PersistedRows]
    /\ EngineStart
    /\ SendIdle
    /\ OrderIdle
    /\ QueueOpen

NextRecovery == StartupNext \/ WorkerNext

SpecRecovery == InitRecovery /\ [][NextRecovery]_vars

\* The engine when a job's processing can panic.
PanicNext == \E w \in Workers : ProcessorPanic(w) /\ UNCHANGED <<sendVars, orderVars, closed>>

NextPanic == StartupNext \/ SubmitNext \/ WorkerNext \/ PanicNext

SpecPanic == Init /\ [][NextPanic]_vars

\* One run of the processor from its call of Transcode on, fed with the
\* lines ffmpeg writes, next to a DeleteJob request.
InitProgress ==
    /\ gormUpsert \in BOOLEAN
    /\ driveOn \in BOOLEAN
    /\ LET rec == Job(StatusProcessing, 0, FALSE, ErrNone, FALSE, FALSE) IN
         /\ store = [j \in Jobs |-> IF j = 1 THEN rec ELSE NoRow]
         /\ mem = [j \in Jobs |-> IF j = 1 THEN rec ELSE NoRow]
    /\ events = [j \in Jobs |-> <<>>]
    /\ uploads = {}
    /\ released = {}
    /\ store0 = [j \in Jobs |-> NoRow]
    /\ queue = <<>>
    /\ running = {1}
    /\ wpc = [w \in Workers |-> IF w = 1 THEN "transcoding" ELSE "idle"]
    /\ wjob = [w \in Workers |-> IF w = 1 THEN 1 ELSE 0]
    /\ mainPc = "serve"
    /\ recList = <<>>
    /\ stopped = FALSE
    /\ dj = "none"
    /\ djJob = 0
    /\ djCopy = NoRow
    /\ enqRes = [j \in Jobs |-> IF j = 1 THEN "ok" ELSE "none"]
    /\ delivered = [j \in Jobs |-> IF j = 1 THEN 1 ELSE 0]
    /\ deletes = 0
    /\ invoked = {1}
    /\ cancelledPending = {}
    /\ cancelReq = {}
    /\ wg = NumWorkers
    /\ numWorkers = NumWorkers
    /\ SendIdle
    /\ OrderIdle
    /\ QueueOpen

NextProgress ==
    \/ \E w \in Workers, t \in TimeVals : ProgressLine(w, t) /\ UNCHANGED <<sendVars, orderVars, closed>>
    \/ \E w \in Workers : TranscodeOk(w) /\ UNCHANGED <<sendVars, orderVars, closed>>
    \/ \E w \in Workers : TranscodeFail(w) /\ UNCHANGED <<sendVars, orderVars, closed>>
    \/ \E w \in Workers : UploadFail(w) /\ UNCHANGED <<sendVars, orderVars, closed>>
    \/ \E w \in Workers : Complete(w) /\ UNCHANGED <<sendVars, orderVars, closed>>
    \/ \E w \in Workers : WorkerMarkDone(w) /\ UNCHANGED <<sendVars, orderVars, closed>>
    \/ \E j \in Jobs : DeleteGet(j) /\ UNCHANGED <<sendVars, orderVars, closed>>
    \/ DeleteUpdate /\ UNCHANGED <<sendVars, orderVars, closed>>
    \/ DeleteSoft /\ UNCHANGED <<sendVars, orderVars, closed>>

SpecProgress == InitProgress /\ [][NextProgress]_vars

\* strconv.Atoi on the values WORKER_COUNT is given here: the number and a
\* nil error, or 0 and an error for a text that is no number.
Atoi(v) ==
    CASE v = "-1" -> [n |-> -1, err |-> FALSE]
      [] v = "0" -> [n |-> 0, err |-> FALSE]
      [] v = "1" -> [n |-> 1, err |-> FALSE]
      [] v = "2" -> [n |-> 2, err |-> FALSE]
      [] OTHER -> [n |-> 0, err |-> TRUE]

\* config.getEnvInt: the default for an unset or non-numeric value.
getEnvInt(value, defaultValue) ==
    IF value # "" /\ ~Atoi(value).err THEN Atoi(value).n ELSE defaultValue

\* The default of WORKER_COUNT in config.Load.
DefaultWorkerCount == 2

\* Values of the environment variable WORKER_COUNT ("" when unset).
WorkerCountEnv == {"", "abc", "-1", "0", "1", "2"}

\* The engine started with WORKER_COUNT taken from the environment.
InitConfig ==
    /\ store \in PersistedStores
    /\ \E v \in WorkerCountEnv :
         /\ getEnvInt(v, DefaultWorkerCount) <= NumWorkers
         /\ numWorkers = getEnvInt(v, DefaultWorkerCount)
    /\ EngineBoot
    /\ SendIdle
    /\ OrderIdle
    /\ QueueOpen

NextConfig == StartupNext \/ SubmitNext \/ WorkerNext

SpecConfig == InitConfig /\ [][NextConfig]_vars

(* ------------------------- the engine, scheduled ------------------------- *)
\* The oldest NumPersisted ids may be in the table, unfinished, at startup;
\* the pool has one worker or more.
InitLive ==
    /\ store \in PersistedStores
    /\ numWorkers \in 1..NumWorkers
    /\ EngineBoot
    /\ SendIdle
    /\ OrderIdle
    /\ QueueOpen

\* The steps of worker w that the Go scheduler and returning collaborators
\* guarantee: the receive when a job is buffered, and every statement of
\* processJob and of the processor up to the return of each call it makes.
\* A progress line is something ffmpeg may or may not print.
WorkerRun(w) ==
    \/ WorkerReceive(w) /\ UNCHANGED <<sendVars, orderVars, closed>>
    \/ WorkerMarkRunning(w) /\ UNCHANGED <<sendVars, orderVars, closed>>
    \/ ProcessStart(w) /\ UNCHANGED <<sendVars, orderVars, closed>>
    \/ TranscodeOk(w) /\ UNCHANGED <<sendVars, orderVars, closed>>
    \/ TranscodeFail(w) /\ UNCHANGED <<sendVars, orderVars, closed>>
    \/ UploadFail(w) /\ UNCHANGED <<sendVars, orderVars, closed>>
    \/ Complete(w) /\ UNCHANGED <<sendVars, orderVars, closed>>
    \/ WorkerMarkDone(w) /\ UNCHANGED <<sendVars, orderVars, closed>>

\* The serving engine with main() and every worker goroutine scheduled.
Fairness ==
    /\ WF_vars(StartupNext)
    /\ \A w \in Workers : WF_vars(WorkerRun(w))

SpecLive == InitLive /\ [][Next]_vars /\ Fairness

(* --------------------- order of events on Queue.jobs -------------------- *)
\* The oldest NumRecovered ids may be in the table at startup.
NumRecovered == 2

RecoveredStores ==
    { st \in [Jobs -> UnfinishedRows] :
        \A j \in Jobs : j > NumRecovered => st[j] = NoRow }

\* The engine started with one worker or more.
InitFifo ==
    /\ store \in RecoveredStores
    /\ numWorkers \in 1..NumWorkers
    /\ EngineBoot
    /\ SendIdle
    /\ OrderIdle
    /\ QueueOpen

\* The caller of Enqueue(j) got nil: j is the next in the enqueue order.
ObserveEnqueue(j) ==
    /\ enqOrder' = IF enqRes'[j] = "ok" THEN Append(enqOrder, j) ELSE enqOrder
    /\ UNCHANGED <<recvOrder, startOrder, sendVars, closed>>

\* Worker w got a job from Jobs().
ObserveReceive(w) ==
    /\ recvOrder' = Append(recvOrder, wjob'[w])
    /\ UNCHANGED <<enqOrder, startOrder, sendVars, closed>>

\* Worker w called ProcessJob.
ObserveStart(w) ==
    /\ startOrder' = Append(startOrder, wjob[w])
    /\ UNCHANGED <<enqOrder, recvOrder, sendVars, closed>>

\* Startup, submissions and workers, with the order of events recorded.
NextFifo ==
    \/ StartPool /\ UNCHANGED <<sendVars, orderVars, closed>>
    \/ RecoverQuery /\ UNCHANGED <<sendVars, orderVars, closed>>
    \/ RecoverStep /\ ObserveEnqueue(Head(recList))
    \/ \E j \in Jobs : CreateJob(j) /\ ObserveEnqueue(j)
    \/ \E w \in Workers : WorkerReceive(w) /\ ObserveReceive(w)
    \/ \E w \in Workers : WorkerMarkRunning(w) /\ UNCHANGED <<sendVars, orderVars, closed>>
    \/ \E w \in Workers : ProcessStart(w) /\ ObserveStart(w)
    \/ \E w \in Workers, p \in ProgressVals :
          ProgressCallback(w, p) /\ UNCHANGED <<sendVars, orderVars, closed>>
    \/ \E w \in Workers : TranscodeOk(w) /\ UNCHANGED <<sendVars, orderVars, closed>>
    \/ \E w \in Workers : TranscodeFail(w) /\ UNCHANGED <<sendVars, orderVars, closed>>
    \/ \E w \in Workers : UploadFail(w) /\ UNCHANGED <<sendVars, orderVars, closed>>
    \/ \E w \in Workers : Complete(w) /\ UNCHANGED <<sendVars, orderVars, closed>>
    \/ \E w \in Workers : WorkerMarkDone(w) /\ UNCHANGED <<sendVars, orderVars, closed>>

SpecFifo == InitFifo /\ [][NextFifo]_vars

(* ------------------------------ Queue.Close ------------------------------ *)
\* Queue.Close: close(q.jobs).  Nothing in the repository calls it; here a
\* caller may call it, once, at any moment while the server serves.
Close ==
    /\ mainPc = "serve"
    /\ ~closed
    /\ closed' = TRUE
    /\ UNCHANGED <<engineVars, sendVars, orderVars>>

\* WorkerPool.worker, select case job, ok := <-wp.queue.Jobs() with ok
\* false: the channel is closed and its buffer is empty.  While values are
\* buffered a receive on a closed channel yields them, as WorkerReceive does.
WorkerClosed(w) ==
    /\ wpc[w] = "idle"
    /\ closed
    /\ queue = <<>>
    /\ wpc' = [wpc EXCEPT ![w] = "exited"]
    /\ wg' = wg - 1
    /\ UNCHANGED <<store, mem, queue, running, wjob, events, delivered,
                   invoked, uploads, released>>
    /\ PipelineFrame
    /\ UNCHANGED <<sendVars, orderVars, closed>>

\* Handler.CreateJob once the channel is closed: the record is inserted,
\* then the send in Enqueue panics and the Recovery middleware answers 500.
CreateJobOnClosed(j) ==
    /\ mainPc = "serve"
    /\ closed
    /\ store[j] = NoRow
    /\ store' = [store EXCEPT ![j] = NewJob]
    /\ enqRes' = [enqRes EXCEPT ![j] = "panic"]
    /\ UNCHANGED <<mem, queue, running, wpc, wjob, mainPc, recList, stopped, dj,
                   djJob, djCopy, gormUpsert, driveOn, events, delivered,
                   invoked, cancelledPending, store0, deletes, cancelReq,
                   uploads, released, wg, numWorkers>>
    /\ UNCHANGED <<sendVars, orderVars, closed>>

\* Startup, submissions and workers, with a caller of Queue.Close.
NextClose ==
    \/ StartupNext
    \/ \E j \in Jobs :
          ~closed /\ CreateJob(j) /\ UNCHANGED <<sendVars, orderVars, closed>>
    \/ \E j \in Jobs : CreateJobOnClosed(j)
    \/ WorkerNext
    \/ Close
    \/ \E w \in Workers : WorkerClosed(w)

SpecClose == Init /\ [][NextClose]_vars

\* The engine with graceful shutdown: startup, submissions, workers and
\* the interrupt signal.
NextStop == StartupNext \/ SubmitNext \/ WorkerNext \/ ShutdownNext

SpecStop == Init /\ [][NextStop]_vars

(* --------------------------- webhook.Client.Send ------------------------- *)
\* Outcomes of one httpClient.Do: an HTTP status code, or 0 for a transport
\* error (no response).
Responses == {0, 199, 200, 299, 300, 500}

\* sendRequest testing only the upper limit of the status code.
RequestOkLax(r) == r # 0 /\ r < 300

\* Client.sendRequest returns nil.
RequestOk(r) == r # 0 /\ r >= 200 /\ r < 300

\* 1 << uint(n)
RECURSIVE Shl1(_)
Shl1(n) == IF n <= 0 THEN 1 ELSE 2 * Shl1(n - 1)

\* The backoff before attempt a (a > 0), in seconds.
Backoff(a) == Shl1(a - 1)

\* The loop of Send running retryCount times in all.
MoreAttemptsStrict(a, r) == a < r

\* The loop condition of Send: attempt <= c.retryCount.
MoreAttempts(a, r) == a <= r

EngineIdle ==
    /\ store = [j \in Jobs |-> NoRow]
    /\ EngineStart
    /\ gormUpsert = FALSE
    /\ driveOn = FALSE

\* A call Send(ctx, url, payload) on a client built by NewClient(sR).
InitSend ==
    /\ EngineIdle
    /\ sUrl \in BOOLEAN
    /\ sR \in -1..MaxRetry
    /\ sPc = "start"
    /\ sAttempt = 0
    /\ sHist = <<>>
    /\ sResult = "none"
    /\ sCtxDone = FALSE
    /\ sBackoff = 0
    /\ sJob = 0
    /\ OrderIdle
    /\ QueueOpen

\* Send without the empty-url return.
SendEntryNoUrlCheck ==
    /\ sPc = "start"
    /\ sPc' = "loop"
    /\ UNCHANGED <<sUrl, sR, sAttempt, sHist, sResult, sCtxDone, sBackoff, sJob>>

\* Send up to the loop: the empty-url return.
SendEntry ==
    /\ sPc = "start"
    /\ IF ~sUrl
       THEN sPc' = "done" /\ sResult' = "ok"
       ELSE sPc' = "loop" /\ sResult' = sResult
    /\ UNCHANGED <<sUrl, sR, sAttempt, sHist, sCtxDone, sBackoff, sJob>>

\* The head of the retry loop: leave with "webhook failed after ..." when
\* the attempts are used up, wait for the backoff before a retry.
SendLoop ==
    /\ sPc = "loop"
    /\ IF ~MoreAttempts(sAttempt, sR)
       THEN sPc' = "done" /\ sResult' = "failed" /\ sBackoff' = sBackoff
       ELSE IF sAttempt > 0
       THEN sPc' = "backoff" /\ sResult' = sResult
            /\ sBackoff' = Backoff(sAttempt)
       ELSE sPc' = "request" /\ sResult' = sResult /\ sBackoff' = sBackoff
    /\ UNCHANGED <<sUrl, sR, sAttempt, sHist, sCtxDone, sJob>>

\* A backoff that sleeps through a cancelled context and goes on.
SendBackoffIgnoresCtx ==
    /\ sPc = "backoff"
    /\ sCtxDone
    /\ sPc' = "request"
    /\ UNCHANGED <<sUrl, sR, sAttempt, sHist, sResult, sCtxDone, sBackoff, sJob>>

\* select case <-ctx.Done(): return ctx.Err().
SendBackoffCancelled ==
    /\ sPc = "backoff"
    /\ sCtxDone
    /\ sPc' = "done"
    /\ sResult' = "ctxerr"
    /\ UNCHANGED <<sUrl, sR, sAttempt, sHist, sCtxDone, sBackoff, sJob>>

\* select case <-time.After(backoff): the timer fires before the deadline.
SendBackoffElapsed ==
    /\ sPc = "backoff"
    /\ ~sCtxDone
    /\ sPc' = "request"
    /\ UNCHANGED <<sUrl, sR, sAttempt, sHist, sResult, sCtxDone, sBackoff, sJob>>

\* c.sendRequest and the rest of the loop body.  With the context done the
\* request ends in a transport error.
SendRequest(r) ==
    /\ sPc = "request"
    /\ sCtxDone => r = 0
    /\ sHist' = Append(sHist, r)
    /\ IF RequestOk(r)
       THEN sPc' = "done" /\ sResult' = "ok" /\ sAttempt' = sAttempt
       ELSE sPc' = "loop" /\ sResult' = sResult /\ sAttempt' = sAttempt + 1
    /\ UNCHANGED <<sUrl, sR, sCtxDone, sBackoff, sJob>>

\* The deadline of ctx passes while Send runs.
DeadlineElapses ==
    /\ sPc \in {"start", "loop", "backoff", "request"}
    /\ ~sCtxDone
    /\ sCtxDone' = TRUE
    /\ UNCHANGED <<sUrl, sR, sPc, sAttempt, sHist, sResult, sBackoff, sJob>>

NextSend ==
    \/ SendEntry /\ UNCHANGED <<engineVars, orderVars, closed>>
    \/ SendLoop /\ UNCHANGED <<engineVars, orderVars, closed>>
    \/ SendBackoffCancelled /\ UNCHANGED <<engineVars, orderVars, closed>>
    \/ SendBackoffElapsed /\ UNCHANGED <<engineVars, orderVars, closed>>
    \/ \E r \in Responses : SendRequest(r) /\ UNCHANGED <<engineVars, orderVars, closed>>
    \/ DeadlineElapses /\ UNCHANGED <<engineVars, orderVars, closed>>

SpecSend == InitSend /\ [][NextSend]_vars

(* --------------------------- webhook.Client.SendAsync -------------------- *)
\* Records the processor has saved when it calls SendAsync.
NotifiedRecs ==
    { CompletedRec(Job(StatusProcessing, 100, FALSE, ErrNone, FALSE, FALSE)),
      FailedRec(Job(StatusProcessing, 50, FALSE, ErrNone, FALSE, FALSE),
                ErrTranscode) }
    \cup (IF driveOn
          THEN { FailedRec(Job(StatusProcessing, 100, FALSE, ErrNone, FALSE,
                               FALSE), ErrUpload) }
          ELSE {})

\* The payload the processor hands over with record rec.
PayloadOf(rec) ==
    IF rec.status = StatusCompleted
    THEN SuccessPayload(rec) ELSE FailurePayload(rec, rec.error)

\* The engine when a worker has just called SendAsync for job 1: the record
\* is saved, the worker is about to return from processJob, and the
\* goroutine SendAsync launched is about to call Send.
InitNotify ==
    /\ gormUpsert \in BOOLEAN
    /\ driveOn \in BOOLEAN
    /\ \E rec \in NotifiedRecs :
         /\ store = [j \in Jobs |-> IF j = 1 THEN rec ELSE NoRow]
         /\ mem = [j \in Jobs |-> IF j = 1 THEN rec ELSE NoRow]
         /\ events = [j \in Jobs |-> IF j = 1 THEN <<PayloadOf(rec)>> ELSE <<>>]
         /\ uploads = IF driveOn /\ rec.progress = 100 THEN {1} ELSE {}
         /\ released = IF driveOn /\ rec.status = StatusCompleted THEN {1} ELSE {}
    /\ store0 = [j \in Jobs |-> NoRow]
    /\ queue = <<>>
    /\ running = {1}
    /\ wpc = [w \in Workers |-> IF w = 1 THEN "returned" ELSE "idle"]
    /\ wjob = [w \in Workers |-> IF w = 1 THEN 1 ELSE 0]
    /\ mainPc = "serve"
    /\ recList = <<>>
    /\ stopped = FALSE
    /\ dj = "none"
    /\ djJob = 0
    /\ djCopy = NoRow
    /\ enqRes = [j \in Jobs |-> IF j = 1 THEN "ok" ELSE "none"]
    /\ delivered = [j \in Jobs |-> IF j = 1 THEN 1 ELSE 0]
    /\ deletes = 0
    /\ invoked = {1}
    /\ cancelledPending = {}
    /\ cancelReq = {}
    /\ wg = NumWorkers
    /\ numWorkers = NumWorkers
    /\ sJob = 1
    /\ sUrl \in BOOLEAN
    /\ sR \in -1..MaxRetry
    /\ sPc = "start"
    /\ sAttempt = 0
    /\ sHist = <<>>
    /\ sResult = "none"
    /\ sCtxDone = FALSE
    /\ sBackoff = 0
    /\ OrderIdle
    /\ QueueOpen

\* A goroutine that marks the job failed when Send returns an error.
SendAsyncReturnMarksFailed ==
    /\ sPc = "done"
    /\ sPc' = "returned"
    /\ store' = IF sResult = "ok" THEN store
                ELSE SaveRow(store, sJob, FailedRec(store[sJob], "webhook failed"))
    /\ UNCHANGED <<sUrl, sR, sAttempt, sHist, sResult, sCtxDone, sBackoff, sJob>>
    /\ UNCHANGED <<mem, queue, running, wpc, wjob, mainPc, recList, stopped,
                   dj, djJob, djCopy, gormUpsert, driveOn, events, enqRes,
                   delivered, invoked, cancelledPending, store0, deletes,
                   cancelReq, uploads, released, wg,
                   numWorkers>>

\* The goroutine of SendAsync after Send returns: an error is logged, and
\* the goroutine ends.
SendAsyncReturn ==
    /\ sPc = "done"
    /\ sPc' = "returned"
    /\ store' = store
    /\ UNCHANGED <<sUrl, sR, sAttempt, sHist, sResult, sCtxDone, sBackoff, sJob>>
    /\ UNCHANGED <<mem, queue, running, wpc, wjob, mainPc, recList, stopped,
                   dj, djJob, djCopy, gormUpsert, driveOn, events, enqRes,
                   delivered, invoked, cancelledPending, store0, deletes,
                   cancelReq, uploads, released, wg,
                   numWorkers>>

NextNotify == NextSend \/ (SendAsyncReturn /\ UNCHANGED <<orderVars, closed>>)

SpecNotify == InitNotify /\ [][NextNotify]_vars

(* ================================ claims ================================= *)
InQueue(j) == Cardinality({i \in 1..Len(queue) : queue[i] = j})
Has(j) == store[j] # NoRow
Is2xx(r) == r \in 200..299

\* The status transitions of the job state machine.
StatusEdges ==
    { <<"none", StatusPending>>,
      <<StatusPending, StatusProcessing>>,
      <<StatusProcessing, StatusCompleted>>,
      <<StatusProcessing, StatusFailed>>,
      <<StatusPending, StatusCancelled>>,
      <<StatusProcessing, StatusCancelled>> }

(* C1: the stored status of a job changes only along pending->processing,
   processing->completed, processing->failed, pending->cancelled and
   processing->cancelled (a record is created pending); a completed, failed
   or cancelled status never changes again.  Steps of the recovery routine
   are outside the claim. *)
ClaimC1_StatusEdgesOnly ==
    [][recList' = recList =>
         \A j \in Jobs :
            \/ store'[j].status = store[j].status
            \/ <<store[j].status, store'[j].status>> \in StatusEdges]_vars

(* C2: a job cancelled while pending and still buffered is skipped by the
   worker that later receives it: Transcode is not called for it and its
   stored status stays cancelled. *)
ClaimC2_StaleCancelledSkipped ==
    \A j \in cancelledPending :
        /\ j \notin invoked
        /\ store[j].status = StatusCancelled

(* C3: in every reachable state, a stored record has completed_at set if and
   only if its status is completed or failed. *)
TheoremC3_CompletedAtIffFinished ==
    \A j \in Jobs :
        Has(j) =>
          (store[j].completedAt
             <=> store[j].status \in {StatusCompleted, StatusFailed})

\* A cancelled record of a job a worker started, next to a failed record.
WitnessC3 ==
    \E j, k \in Jobs :
        /\ Has(j) /\ store[j].status = StatusCancelled /\ j \in invoked
        /\ Has(k) /\ store[k].status = StatusFailed /\ store[k].completedAt

(* C4: an Enqueue call on a buffer holding fewer than QueueCap entries
   succeeds and the size grows by one; on a buffer holding QueueCap entries
   it returns ErrQueueFull and the buffer is exactly what it was. *)
TheoremC4_EnqueueContract ==
    [][\A j \in Jobs :
         (enqRes[j] = "none" /\ enqRes'[j] # "none") =>
            IF Len(queue) < QueueCap
            THEN /\ enqRes'[j] = "ok"
                 /\ queue' = Append(queue, j)
                 /\ Size(queue') = Size(queue) + 1
            ELSE /\ enqRes'[j] = "full"
                 /\ queue' = queue
                 /\ Size(queue') = Size(queue)]_vars

\* One Enqueue was refused on a full buffer after others succeeded.
WitnessC4 ==
    /\ \E j \in Jobs : enqRes[j] = "full"
    /\ Cardinality({j \in Jobs : enqRes[j] = "ok"}) >= QueueCap

(* C5: every job whose Enqueue succeeded is either still buffered or was
   received exactly once, by one worker; a job whose Enqueue did not succeed
   is never received; no two workers hold the same job. *)
TheoremC5_ExactlyOneDelivery ==
    /\ \A j \in Jobs :
         /\ delivered[j] <= 1
         /\ enqRes[j] = "ok" => delivered[j] + InQueue(j) = 1
         /\ enqRes[j] # "ok" => delivered[j] + InQueue(j) = 0
    /\ \A w1, w2 \in Workers :
         (wjob[w1] # 0 /\ wjob[w1] = wjob[w2]) => w1 = w2

\* Two workers hold jobs they received while another job is buffered.
WitnessC5 ==
    /\ \E w1, w2 \in Workers :
         w1 # w2 /\ wjob[w1] # 0 /\ wjob[w2] # 0
    /\ queue # <<>>

(* C6: the running set never holds more ids than there are workers. *)
TheoremC6_RunningAtMostWorkers == Cardinality(running) <= NumWorkers

\* Every worker has a job marked running and a further job waits.
WitnessC6 == Cardinality(running) = NumWorkers /\ queue # <<>>

\* What the recovery routine is to have established when it returns.
Recoverable(row) ==
    row # NoRow /\ ~row.deleted
    /\ row.status \in {StatusPending, StatusProcessing}

RecoveryPost ==
    \A j \in Jobs :
        IF Recoverable(store0[j])
        THEN /\ store[j].status = StatusPending
             /\ store[j].progress = 0
             /\ enqRes[j] = "ok"
             /\ delivered[j] + InQueue(j) = 1
        ELSE /\ store[j] = store0[j]
             /\ enqRes[j] = "none"

(* C7: when the recovery routine returns (the recovered records fitting the
   buffer), every record that was pending or processing is stored pending
   with progress 0 and was enqueued exactly once, and every other record is
   unchanged and was not enqueued. *)
ClaimC7_RecoveryResetsAndEnqueues ==
    [][(mainPc # "serve" /\ mainPc' = "serve"
        /\ Len(GetPendingJobs(store0)) <= QueueCap) => RecoveryPost']_vars

(* C8: with an endpoint configured, every attempt failing and the deadline
   not elapsing, Send makes exactly sR + 1 requests and reports failure. *)
TheoremC8_FailsAfterAllAttempts ==
    (/\ sPc = "done" /\ sUrl /\ ~sCtxDone
     /\ \A i \in 1..Len(sHist) : ~Is2xx(sHist[i]))
    => (sResult = "failed" /\ Len(sHist) = sR + 1)

\* Send gave up after MaxRetry + 1 failed requests.
WitnessC8 ==
    /\ sPc = "done" /\ sUrl /\ ~sCtxDone /\ sResult = "failed"
    /\ sR = MaxRetry /\ Len(sHist) = MaxRetry + 1

(* C9: Send stops at the first 2xx response: no request follows a 2xx
   response, Send returns success exactly when its last request got a 2xx
   response, any other outcome counts as a failed attempt, and at most
   sR + 1 requests are made. *)
TheoremC9_StopsAtFirst2xx ==
    sUrl =>
      /\ \A i \in 1..(Len(sHist) - 1) : ~Is2xx(sHist[i])
      /\ (sPc = "done" /\ sResult = "ok")
            => (Len(sHist) >= 1 /\ Is2xx(sHist[Len(sHist)]))
      /\ (Len(sHist) >= 1 /\ Is2xx(sHist[Len(sHist)]))
            => (sPc = "done" /\ sResult = "ok")
      /\ Len(sHist) <= sR + 1

\* Two failed attempts, then a 2xx response on the third.
WitnessC9 ==
    /\ sPc = "done" /\ sResult = "ok" /\ sUrl
    /\ Len(sHist) = 3
    /\ ~Is2xx(sHist[1]) /\ ~Is2xx(sHist[2]) /\ Is2xx(sHist[3])

(* C10: with no endpoint configured Send returns success and makes no
   request. *)
TheoremC10_NoUrlNoRequest ==
    ~sUrl =>
      /\ Len(sHist) = 0
      /\ sPc \in {"start", "done"}
      /\ sPc = "done" => sResult = "ok"

\* Send returned on the empty url.
WitnessC10 == ~sUrl /\ sPc = "done" /\ sResult = "ok" /\ sHist = <<>>

(* C11: no step of the notifier goroutine changes a job record, whatever
   the outcome of the delivery: the record stored when the notifier has
   finished is the one stored when it was invoked. *)
TheoremC11_NotifierLeavesRecords ==
    [][store' = store /\ mem' = mem]_vars

\* The notifier gave up after MaxRetry + 1 failed requests for a completed
\* job, and its goroutine has ended.
WitnessC11 ==
    /\ sPc = "returned" /\ sResult = "failed" /\ Len(sHist) = MaxRetry + 1
    /\ sJob # 0 /\ store[sJob].status = StatusCompleted

\* The processor went through every stage for job j: it handed a success
\* payload to the notifier.
RanToSuccess(j) ==
    \E i \in 1..Len(events[j]) : events[j][i].status = StatusCompleted

\* A worker holds job j and has not yet passed every stage.
InStages(j) ==
    \E w \in Workers :
        wjob[w] = j /\ wpc[w] \in {"received", "marked", "transcoding",
                                   "nostart", "transcoded"}

(* C12: for a job no cancel request names, once transcode and (when
   configured) upload have succeeded the stored record is completed with
   progress 100, completed_at set and the file id and link the upload
   returned (none without an upload); and status completed is stored only
   after every stage has succeeded. *)
TheoremC12_SuccessRecord ==
    \A j \in Jobs \ cancelReq :
        /\ RanToSuccess(j) =>
              /\ Has(j)
              /\ store[j].status = StatusCompleted
              /\ store[j].progress = 100
              /\ store[j].completedAt
              /\ store[j].error = ErrNone
              /\ store[j].drive = (j \in uploads)
              /\ driveOn => j \in uploads
        /\ (Has(j) /\ store[j].status = StatusCompleted) =>
              /\ RanToSuccess(j)
              /\ j \in invoked
              /\ ~InStages(j)

\* A job ran to completion with an upload while another job was the target
\* of a cancel request.
WitnessC12 ==
    \E j \in Jobs \ cancelReq :
        /\ RanToSuccess(j) /\ store[j].status = StatusCompleted
        /\ store[j].drive /\ j \in uploads
        /\ cancelReq # {}

\* The processor handed the notifier a failure payload with cause msg for j.
FailedWith(j, msg) ==
    \E i \in 1..Len(events[j]) :
        events[j][i].status = StatusFailed /\ events[j][i].error = msg

\* No worker holds j and no DeleteJob request on j is in flight: what is
\* stored for j is final.
Settled(j) == (\A w \in Workers : wjob[w] # j) /\ djJob # j

\* The record and the calls C13 describes, for job j.
TranscodeFailureOutcome(j) ==
    /\ Has(j)
    /\ store[j].status = StatusFailed
    /\ store[j].error = ErrTranscode
    /\ j \notin uploads
    /\ Len(events[j]) = 1
    /\ events[j][1].status = StatusFailed

(* C13 as stated: whenever Transcode returned an error for a job, the final
   stored record is failed with the transcode cause, UploadFile was never
   called for the job and the notifier got a payload with status failed. *)
ClaimC13_TranscodeErrorFails ==
    \A j \in Jobs :
        (FailedWith(j, ErrTranscode) /\ Settled(j)) => TranscodeFailureOutcome(j)

(* C13 amended: for a job no cancel request names, from the step in which
   Transcode returns an error on, the stored record is failed with the
   transcode cause and the progress last reported, UploadFile is never
   called for the job and the notifier got one payload, with status
   failed. *)
TheoremC13_TranscodeErrorFails ==
    [][/\ \A j \in Jobs \ cancelReq' :
            FailedWith(j, ErrTranscode)' => TranscodeFailureOutcome(j)'
       /\ \A w \in Workers :
            (/\ wpc[w] = "transcoding" /\ wpc'[w] = "returned"
             /\ wjob[w] \notin cancelReq)
            => /\ FailedWith(wjob[w], ErrTranscode)'
               /\ store'[wjob[w]].progress = mem[wjob[w]].progress]_vars

\* Transcode failed after reporting progress 50; the record is final.
WitnessC13 ==
    \E j \in Jobs \ cancelReq :
        /\ FailedWith(j, ErrTranscode) /\ Settled(j)
        /\ store[j].status = StatusFailed /\ store[j].progress = 50
        /\ store0[j] = NoRow

\* The record and the calls C14 describes, for job j.
UploadFailureOutcome(j) ==
    /\ Has(j)
    /\ store[j].status = StatusFailed
    /\ store[j].error = ErrUpload
    /\ ErrUpload # ErrTranscode
    /\ ~store[j].drive
    /\ j \in uploads
    /\ j \notin released
    /\ events[j] = <<[status |-> StatusFailed, drive |-> FALSE,
                      error |-> ErrUpload]>>

(* C14 as stated: whenever UploadFile failed for a job after a successful
   transcode, the final stored record is failed with the upload cause (not
   the transcode cause) and carries no file id or link, the processor did
   not clean up the local files, and the notifier got a failure payload. *)
ClaimC14_UploadErrorFails ==
    \A j \in Jobs :
        (FailedWith(j, ErrUpload) /\ Settled(j)) => UploadFailureOutcome(j)

(* C14 amended: for a job no cancel request names, once UploadFile has
   failed after a successful transcode the stored record is failed with the
   upload cause (not the transcode cause) and carries no file id or link,
   the processor has not cleaned up the local files, and the notifier got
   one payload, the failure payload. *)
TheoremC14_UploadErrorFails ==
    \A j \in Jobs \ cancelReq :
        FailedWith(j, ErrUpload) =>
            UploadFailureOutcome(j) /\ store[j].progress = 100

\* An upload failed for one job and succeeded for another.
WitnessC14 ==
    \E j, k \in Jobs \ cancelReq :
        /\ FailedWith(j, ErrUpload) /\ Settled(j)
        /\ store[j].status = StatusFailed
        /\ RanToSuccess(k) /\ k \in released

(* C15: stop() is never the cause of a job becoming failed: a job whose
   transcode is running when the pool context is cancelled does not end
   with the failure of a cancelled context. *)
ClaimC15_StopNeverFailsRunningJob ==
    [][\A w \in Workers :
         (wpc[w] = "transcoding" /\ wpc'[w] = "returned")
         => /\ ~FailedWith(wjob[w], ErrKilled)'
            /\ store'[wjob[w]].error # ErrKilled]_vars

(* C16: once stop() has cancelled the pool context no worker receives a
   buffered job: the buffer stays as it is and every buffered job keeps
   stored status pending. *)
ClaimC16_NoDequeueAfterStop ==
    [][stopped =>
         /\ queue' = queue
         /\ \A w \in Workers : ~(wpc[w] = "idle" /\ wpc'[w] = "received")
         /\ \A j \in Jobs :
              InQueue(j) > 0 => store'[j].status = StatusPending]_vars

(* C17: when a panic is raised inside the processing of one job, that job's
   stored status becomes failed, and main() and the other workers are where
   they were: the pool goes on. *)
ClaimC17_PanicCaught ==
    [][\A w \in Workers :
         (wpc[w] # "panicked" /\ wpc'[w] = "panicked")
         => /\ store'[wjob[w]].status = StatusFailed
            /\ mainPc' = mainPc
            /\ \A v \in Workers \ {w} : wpc'[v] = wpc[v]]_vars

(* C18: a submission whose Enqueue returned ErrQueueFull leaves no record
   of the rejected job in the store. *)
ClaimC18_QueueFullLeavesNoRecord ==
    \A j \in Jobs :
        (enqRes[j] = "full" /\ store0[j] = NoRow) => store[j] = NoRow

(* C19: every payload handed to SendAsync has status completed or failed;
   the file id and link are present only in payloads with status completed,
   and an error only in payloads with status failed. *)
TheoremC19_PayloadFields ==
    \A j \in Jobs : \A i \in 1..Len(events[j]) :
        LET e == events[j][i] IN
        /\ e.status \in {StatusCompleted, StatusFailed}
        /\ e.drive => e.status = StatusCompleted
        /\ e.error # ErrNone => e.status = StatusFailed

\* The notifier got a completed payload with a link, a transcode failure
\* and an upload failure.
WitnessC19 ==
    \E j, k, l \in Jobs :
        /\ events[j] # <<>> /\ events[j][1].status = StatusCompleted
        /\ events[j][1].drive
        /\ FailedWith(k, ErrTranscode)
        /\ FailedWith(l, ErrUpload)

(* C20: the write of a cancel/delete request sets status cancelled on a
   stored record that is pending or processing, and leaves status,
   completed_at and error_message of a stored record that is completed or
   failed as they are. *)
ClaimC20_CancelOnlyNonTerminal ==
    [][(dj = "got" /\ dj' = "updated") =>
         LET j == djJob IN
         /\ store[j].status \in {StatusPending, StatusProcessing}
               => store'[j].status = StatusCancelled
         /\ store[j].status \in {StatusCompleted, StatusFailed}
               => /\ store'[j].status = store[j].status
                  /\ store'[j].completedAt = store[j].completedAt
                  /\ store'[j].error = store[j].error]_vars

\* A worker is inside a pipeline stage (transcode or upload) for job j.
StageRunning(j) ==
    \E w \in Workers :
        wjob[w] = j /\ wpc[w] \in {"transcoding", "nostart", "transcoded"}

(* C21 as stated: in every state where a pipeline stage is executing for a
   job, the stored record of that job is visible and pending or processing,
   so that the next recovery selects it. *)
ClaimC21_ProcessingPersistedFirst ==
    \A j \in Jobs : StageRunning(j) => Recoverable(store[j])

(* C21 amended: for a job no cancel request names, status processing is
   stored by the step that calls Transcode, and while a pipeline stage is
   executing for the job its stored record is visible with status
   processing, so that the next recovery selects it. *)
TheoremC21_ProcessingPersistedFirst ==
    [][\A j \in Jobs \ cancelReq' :
         /\ (j \in invoked' /\ j \notin invoked)
               => store'[j].status = StatusProcessing
         /\ StageRunning(j)' =>
               /\ Recoverable(store'[j])
               /\ store'[j].status = StatusProcessing
               /\ \E i \in 1..Len(GetPendingJobs(store')) :
                     GetPendingJobs(store')[i] = j]_vars

\* The upload stage runs for one job while another job is cancelled.
WitnessC21 ==
    \E j \in Jobs \ cancelReq :
        /\ \E w \in Workers : wjob[w] = j /\ wpc[w] = "transcoded"
        /\ store[j].status = StatusProcessing
        /\ cancelReq # {}

(* C22: while the stored status of a job is processing, its stored
   progress is within 0..100 and no write lowers it. *)
ClaimC22_ProgressMonotone ==
    [][\A j \in Jobs :
         (/\ Has(j) /\ store[j].status = StatusProcessing
          /\ store'[j].status = StatusProcessing)
         => /\ store'[j].progress \in 0..100
            /\ store'[j].progress >= store[j].progress]_vars

(* C23: a pipeline run that ends hands the notifier exactly one payload,
   the only one for that job, and at that moment the stored status of the
   job is the completed or failed status the payload carries; no payload is
   handed over otherwise. *)
ClaimC23_NotifiedOnceAfterWrite ==
    [][/\ \A w \in Workers :
            (wpc[w] # "returned" /\ wpc'[w] = "returned")
            => events'[wjob[w]] # events[wjob[w]]
       /\ \A j \in Jobs :
            events'[j] # events[j]
            => /\ Len(events'[j]) = 1
               /\ \E w \in Workers :
                     wjob[w] = j /\ wpc[w] # "returned" /\ wpc'[w] = "returned"
               /\ store'[j].status = events'[j][1].status]_vars

(* C24: a recovered job whose Enqueue returned ErrQueueFull stays in the
   store pending with progress 0, has no queue entry and is not processed;
   the loop goes on to the next record, and main() goes on to serve once
   every selected record has been handled. *)
TheoremC24_RecoveryQueueFull ==
    [][/\ \A j \in Jobs :
            enqRes'[j] = "full" =>
              /\ store'[j] # NoRow /\ ~store'[j].deleted
              /\ store'[j].status = StatusPending
              /\ store'[j].progress = 0
              /\ InQueue(j)' = 0
              /\ delivered'[j] = 0
              /\ j \notin invoked'
              /\ \A w \in Workers : wjob'[w] # j
       /\ \A j \in Jobs :
            (enqRes[j] = "none" /\ enqRes'[j] = "full") =>
              /\ queue' = queue
              /\ recList' = Tail(recList)
              /\ mainPc' = IF recList' = <<>> THEN "serve" ELSE "recovering"
       /\ mainPc' = "serve" =>
            \A j \in Jobs : Recoverable(store0[j]) => enqRes'[j] # "none"]_vars

\* main() serves while a recovered job that did not fit the buffer is
\* stored pending and the jobs recovered before it have been processed.
WitnessC24 ==
    /\ mainPc = "serve"
    /\ \E j \in Jobs :
         /\ enqRes[j] = "full" /\ store[j].status = StatusPending
         /\ store0[j].status = StatusProcessing
         /\ \A k \in Jobs \ {j} : store[k].status \in Terminal
    /\ queue = <<>>

(* C25: until the recovery routine has returned, no worker has received a
   job from the queue and no submission has been accepted. *)
ClaimC25_RecoveryBeforeWorkers ==
    mainPc \in {"boot", "recover", "recovering"} =>
        /\ \A j \in Jobs : delivered[j] = 0
        /\ \A j \in Jobs : store0[j] = NoRow => store[j] = NoRow

(* C26: within one process lifetime a job is enqueued and received at most
   once and its pipeline runs at most once; a job that failed is not in the
   queue again, and a record found failed at startup is not selected by the
   recovery routine: it is not enqueued, not processed and not changed. *)
TheoremC26_AtMostOneRun ==
    \A j \in Jobs :
        /\ delivered[j] + InQueue(j) <= 1
        /\ Len(events[j]) <= 1
        /\ (\E i \in 1..Len(events[j]) : events[j][i].status = StatusFailed)
             => /\ InQueue(j) = 0
                /\ delivered[j] = 1
                /\ store[j].status = StatusFailed
        /\ (store0[j] # NoRow /\ store0[j].status = StatusFailed)
             => /\ enqRes[j] = "none"
                /\ InQueue(j) = 0
                /\ delivered[j] = 0
                /\ j \notin invoked
                /\ store[j] = store0[j]

\* Recovery is over: a record found failed is as it was, and a recovered
\* job has failed in this lifetime and every worker is idle again.
WitnessC26 ==
    /\ mainPc = "serve"
    /\ queue = <<>>
    /\ \A w \in Workers : wpc[w] = "idle"
    /\ \E j, k \in Jobs :
         /\ store0[j] # NoRow /\ store0[j].status = StatusFailed
         /\ store0[k] # NoRow /\ store0[k].status = StatusProcessing
         /\ FailedWith(k, ErrTranscode)

(* C27: when stop() returns every worker has finished its job and exited
   and the running set is empty, and after that no record is written. *)
TheoremC27_StopWaitsForWorkers ==
    [][/\ mainPc' = "exited" =>
            /\ \A w \in Workers : wpc'[w] = "exited" /\ wjob'[w] = 0
            /\ running' = {}
       /\ mainPc = "exited" => (store' = store /\ mem' = mem)]_vars

\* stop() has returned after a worker finished a job that was running when
\* the signal came, with another job left in the buffer.
WitnessC27 ==
    /\ mainPc = "exited"
    /\ queue # <<>>
    /\ \E j \in Jobs : events[j] # <<>>

(* C28: when the deadline has elapsed while Send waits in a backoff, Send
   returns an error from that wait without making another request; and
   Send never makes more than sR + 1 requests. *)
TheoremC28_DeadlineInBackoff ==
    [][/\ (sPc = "backoff" /\ sCtxDone) =>
            /\ sPc' = "done"
            /\ sResult' = "ctxerr"
            /\ sHist' = sHist
       /\ sPc = "done" => sHist' = sHist
       /\ Len(sHist') <= sR + 1]_vars

\* Send gave up in the backoff after one failed request, with retries left.
WitnessC28 ==
    /\ sPc = "done" /\ sResult = "ctxerr" /\ sCtxDone
    /\ Len(sHist) = 1 /\ sR = MaxRetry

(* C29: no submission is accepted and enqueued while the pool has no
   worker: with a worker count of 0 startup does not get as far as
   serving. *)
ClaimC29_NoWorkersAbortsStartup ==
    \A j \in Jobs :
        (store0[j] = NoRow /\ enqRes[j] = "ok")
        => \E w \in Workers : wpc[w] # "notstarted"

\* C30: job references leave Queue.jobs in the order in which their
\* Enqueue calls succeeded: the jobs received so far, followed by the
\* buffered ones, are the enqueue order.  With a single worker the
\* pipelines start in that order, and recovered jobs start in ascending
\* creation order.
TheoremC30_QueueIsFifo ==
    /\ recvOrder \o queue = enqOrder
    /\ numWorkers = 1 =>
         /\ Len(startOrder) <= Len(enqOrder)
         /\ startOrder = SubSeq(enqOrder, 1, Len(startOrder))
         /\ \A a, b \in 1..Len(startOrder) :
              (/\ a < b
               /\ store0[startOrder[a]] # NoRow
               /\ store0[startOrder[b]] # NoRow)
              => startOrder[a] < startOrder[b]

\* A single worker has started two recovered jobs and a submitted one.
WitnessC30 ==
    /\ numWorkers = 1
    /\ Len(startOrder) = NumJobs
    /\ Cardinality({j \in Jobs : store0[j] # NoRow}) = NumRecovered

\* processJob of worker w is between its MarkRunning and its deferred MarkDone.
InProcessJob(w) ==
    wpc[w] \in {"marked", "transcoding", "nostart", "transcoded", "returned"}

(* C31: the running set holds exactly the jobs whose processJob call is
   between MarkRunning and MarkDone: a job is in it for as long as its
   pipeline executes and after the pipeline has returned, on success and on
   failure, until MarkDone; when every worker is idle the set is empty. *)
TheoremC31_RunningWhileOwned ==
    /\ running = { wjob[w] : w \in { v \in Workers : InProcessJob(v) } }
    /\ \A j \in Jobs : StageRunning(j) => IsRunning(j)
    /\ (\A w \in Workers : wpc[w] \in {"notstarted", "idle", "exited"})
       => running = {}

\* A pipeline has returned a failure and its job is still marked running,
\* while the other worker is idle.
WitnessC31 ==
    \E w \in Workers :
        /\ wpc[w] = "returned"
        /\ store[wjob[w]].status = StatusFailed
        /\ IsRunning(wjob[w])
        /\ \A v \in Workers \ {w} : wpc[v] = "idle"

\* The stored record of job j has a terminal status.
StoredTerminal(j) == store[j] # NoRow /\ store[j].status \in Terminal

\* Nothing is left for main() or a worker to do: the server listens, no
\* request is in flight, the buffer is empty and every worker waits in its
\* select.  No scheduled step is enabled, so the engine may stay here.
Quiet ==
    /\ mainPc = "serve"
    /\ dj = "none"
    /\ queue = <<>>
    /\ \A w \in Workers : wpc[w] \in {"idle", "notstarted"}

(* C32: with one worker or more, no stop and collaborators that return,
   every job whose Enqueue succeeded is eventually received by a worker and
   its stored record eventually has a terminal status; so when the engine
   has nothing left to do, each such job has been received and its stored
   record is terminal. *)
ClaimC32_EnqueuedJobsFinish ==
    Quiet =>
        \A j \in Jobs :
            enqRes[j] = "ok" => (delivered[j] > 0 /\ StoredTerminal(j))

(* C33: in every state, a stored record with a non-empty error_message has
   status failed. *)
TheoremC33_ErrorOnlyWhenFailed ==
    \A j \in Jobs :
        (store[j] # NoRow /\ store[j].error # ErrNone)
        => store[j].status = StatusFailed

\* One job is stored failed with its message; the pipeline of another ran
\* and its record is stored cancelled.
WitnessC33 ==
    \E j, k \in Jobs :
        /\ j # k
        /\ store[j] # NoRow
        /\ store[j].status = StatusFailed
        /\ store[j].error # ErrNone
        /\ k \in invoked
        /\ store[k].status = StatusCancelled

(* C34: once Queue.Close has been called no further job reference is handed
   to a worker (jobs in progress at that moment run their pipelines to the
   end). *)
ClaimC34_NoDequeueAfterClose ==
    [][closed => delivered' = delivered]_vars

============================================================================
